---- MODULE Spec2Model ----
(***************************************************************************)
(* State-machine model of the MailSlurp helper (class MailSlurp): the      *)
(* fixture state (mailboxes, currentMailbox, currentEmail), the calls the  *)
(* helper issues to the MailSlurp client, and the outcome of every helper  *)
(* method.  The MailSlurp client is the environment: each of its answers   *)
(* is a nondeterministic choice.                                           *)
(***************************************************************************)
EXTENDS Integers, Sequences, FiniteSets, TLC

(***************************************************************************)
(* Bounds of the model.                                                    *)
(***************************************************************************)
MaxMailboxes == 2
MaxFields == 2
MaxSec == 1
MaxPreviews == 2

(***************************************************************************)
(* JavaScript values.  Strings whose characters matter are sequences of    *)
(* one-character strings; null and undefined are tagged records; an array  *)
(* is a record holding a sequence.                                         *)
(***************************************************************************)
Null == [tag |-> "null"]
Undefined == [tag |-> "undefined"]
Arr(s) == [arr |-> s]
Falsy(v) == v = Null \/ v = Undefined

SeqMap(Op(_), s) == [i \in 1..Len(s) |-> Op(s[i])]

(* Inboxes the provider can answer with. *)
MailboxIds == {"a", "b"}
Inbox(i) == [id |-> i, emailAddress |-> <<i, "@">>]
Inboxes == {Inbox(i) : i \in MailboxIds}

(* Full messages held by the provider. *)
Emails ==
  { [id |-> "e1", subject |-> <<"a", "b">>, body |-> <<"b">>, from |-> <<"a", "@">>,
     attachments |-> <<"x", "y">>],
    [id |-> "e2", subject |-> <<"a">>, body |-> <<>>, from |-> <<"b", "@">>,
     attachments |-> <<>>] }
EmailIds == {e.id : e \in Emails}
EmailById(i) == CHOOSE e \in Emails : e.id = i

(***************************************************************************)
(* constructor: Object.assign(defaults, config), then the apiKey check.    *)
(* A configuration is a record; a field the caller leaves out is absent    *)
(* from the record.                                                        *)
(***************************************************************************)
DefaultTimeout == 10000
defaults == [timeout |-> DefaultTimeout, debug |-> FALSE]

ObjectAssign(target, source) ==
  [k \in (DOMAIN target) \cup (DOMAIN source) |->
     IF k \in DOMAIN source THEN source[k] ELSE target[k]]

UserConfigs ==
  { [apiKey |-> "key"],
    [apiKey |-> "key", timeout |-> 3000, debug |-> TRUE],
    [apiKey |-> ""],
    [timeout |-> 3000] }

\* A check that the apiKey property exists, whatever its value.
ConfigOkAnyApiKey(c) == "apiKey" \in DOMAIN ObjectAssign(defaults, c)

ConfigOk(c) ==
  LET cfg == ObjectAssign(defaults, c)
  IN  "apiKey" \in DOMAIN cfg /\ cfg.apiKey # ""

VARIABLES
  config,          \* this.config
  mailboxes,       \* this.mailboxes
  currentMailbox,  \* this.currentMailbox
  currentEmail,    \* this.currentEmail
  afterPc,         \* position of a running _after(): "idle" or "awaiting"
  deleteCalls,     \* the deleteInbox calls issued by the running _after()
  deleteStatus,    \* per deleteInbox call: "pending", "fulfilled" or "rejected"
  createPc,        \* position of a running haveNewMailbox/haveExistingMailbox
  grab,            \* the getEmail calls of a stepwise grab: the previews they
                   \* were issued for, what each has settled with, and the
                   \* order in which they settled
  provider,        \* the provider's side of a stepwise waitForNthEmail: the
                   \* messages delivered to the mailbox, whether the timeout
                   \* of the call in flight has elapsed
  result           \* the latest method call: its arguments, the fixture state
                   \* it started from, the provider calls it issued, its outcome

vars == <<config, mailboxes, currentMailbox, currentEmail, afterPc, deleteCalls,
          deleteStatus, createPc, provider, grab, result>>

fixture == <<mailboxes, currentMailbox, currentEmail>>
async == <<afterPc, deleteCalls, deleteStatus, createPc>>

Snapshot == [mailboxes |-> mailboxes, currentMailbox |-> currentMailbox,
             currentEmail |-> currentEmail]

(* The record of a method call. *)
Outcome(op, args, calls, status, error, value) ==
  [op |-> op, args |-> args, pre |-> Snapshot, calls |-> calls,
   status |-> status, error |-> error, value |-> value]

Returned(op, args, calls, value) == Outcome(op, args, calls, "returned", "", value)
Thrown(op, args, calls, error) == Outcome(op, args, calls, "thrown", error, Undefined)

Idle == afterPc = "idle" /\ createPc = "idle"

Init ==
  /\ config \in {ObjectAssign(defaults, c) : c \in {u \in UserConfigs : ConfigOk(u)}}
  /\ mailboxes = Undefined
  /\ currentMailbox = Undefined
  /\ currentEmail = Undefined
  /\ afterPc = "idle"
  /\ deleteCalls = <<>>
  /\ deleteStatus = <<>>
  /\ createPc = "idle"
  /\ provider = [delivered |-> 0, elapsed |-> FALSE]
  /\ grab = [pc |-> "idle", previews |-> <<>>, settled |-> <<>>, order |-> <<>>]
  /\ result = [op |-> "constructor", args |-> <<>>, pre |-> Snapshot, calls |-> <<>>,
               status |-> "returned", error |-> "", value |-> Undefined]

(***************************************************************************)
(* _before(): resets the fixture state.                                    *)
(***************************************************************************)
_before ==
  /\ mailboxes' = Arr(<<>>)
  /\ currentMailbox' = Null
  /\ currentEmail' = Null
  /\ result' = Returned("_before", <<>>, <<>>, Undefined)
  /\ UNCHANGED <<config, provider, grab, async>>

(***************************************************************************)
(* _after(): returns at once when no mailbox is recorded; otherwise maps   *)
(* every recorded mailbox to a deleteInbox call (all calls are issued      *)
(* before the first await), awaits Promise.all of them and then clears the *)
(* fixture state.  Promise.all fulfils when every call has fulfilled and   *)
(* rejects as soon as one call has rejected; a rejection is thrown out of  *)
(* _after() at the await, before the lines that clear the state.           *)
(***************************************************************************)
deleteInboxCall(m) == [fn |-> "deleteInbox", id |-> m.id]

\* A teardown that deletes the first recorded mailbox only.
mapDeleteInboxFirstOnly(boxes) == SeqMap(deleteInboxCall, SubSeq(boxes, 1, 1))

\* this.mailboxes.map(m => this.mailslurp.deleteInbox(m.id))
mapDeleteInbox(boxes) == SeqMap(deleteInboxCall, boxes)

_afterCall ==
  /\ IF (IF Falsy(mailboxes) THEN TRUE ELSE Len(mailboxes.arr) = 0)
       THEN /\ result' = Returned("_after", <<>>, <<>>, Undefined)
            /\ UNCHANGED <<afterPc, deleteCalls, deleteStatus>>
       ELSE /\ deleteCalls' = mapDeleteInbox(mailboxes.arr)
            /\ deleteStatus' = [i \in 1..Len(deleteCalls') |-> "pending"]
            /\ afterPc' = "awaiting"
            /\ result' = Outcome("_after", <<>>, deleteCalls', "pending", "", Undefined)
  /\ UNCHANGED <<config, provider, grab, fixture, createPc>>

\* The provider settles one deleteInbox call.
deleteInboxSettle(i, ok) ==
  /\ i \in 1..Len(deleteStatus)
  /\ deleteStatus[i] = "pending"
  /\ deleteStatus' = [deleteStatus EXCEPT ![i] = IF ok THEN "fulfilled" ELSE "rejected"]
  /\ UNCHANGED <<config, provider, grab, fixture, afterPc, deleteCalls, createPc, result>>

AllFulfilled == \A i \in 1..Len(deleteStatus) : deleteStatus[i] = "fulfilled"
SomeRejected == \E i \in 1..Len(deleteStatus) : deleteStatus[i] = "rejected"

\* The continuation of _after() behind `await Promise.all(...)`.  Calls that are
\* still pending when Promise.all rejects settle unobserved: _after() has ended
\* and nothing reads their outcome, so the model stops following them.
_afterResume ==
  /\ afterPc = "awaiting"
  /\ \/ /\ SomeRejected
        /\ result' = [result EXCEPT !.status = "thrown", !.error = "ProviderError"]
        /\ UNCHANGED fixture
     \/ /\ AllFulfilled
        /\ mailboxes' = Arr(<<>>)
        /\ currentMailbox' = Null
        /\ currentEmail' = Null
        /\ result' = [result EXCEPT !.status = "returned"]
  /\ afterPc' = "idle"
  /\ deleteCalls' = <<>>
  /\ deleteStatus' = <<>>
  /\ UNCHANGED <<config, provider, grab, createPc>>

(***************************************************************************)
(* haveNewMailbox() and haveExistingMailbox(mailboxId): one provider call, *)
(* then the inbox the provider answered with is pushed on this.mailboxes   *)
(* and becomes the current mailbox.                                        *)
(***************************************************************************)
haveNewMailboxCall ==
  /\ createPc' = "createInbox"
  /\ result' = Outcome("haveNewMailbox", <<>>, <<[fn |-> "createInbox"]>>, "pending", "",
                       Undefined)
  /\ UNCHANGED <<config, provider, grab, fixture, afterPc, deleteCalls, deleteStatus>>

\* A check for a missing argument only (mailboxId === undefined).
haveExistingMailboxCallUndefinedOnly(args) ==
  IF Len(args) = 0
    THEN /\ result' = Thrown("haveExistingMailbox", args, <<>>, "MissingParameter")
         /\ UNCHANGED <<config, provider, grab, fixture, async>>
    ELSE /\ createPc' = "getInbox"
         /\ result' = Outcome("haveExistingMailbox", args,
                              <<[fn |-> "getInbox", id |-> args[1]]>>, "pending", "",
                              Undefined)
         /\ UNCHANGED <<config, provider, grab, fixture, afterPc, deleteCalls, deleteStatus>>

\* mailboxId is the argument list: <<>> when the caller passes no id.
haveExistingMailboxCall(args) ==
  IF Len(args) = 0 \/ args[1] = ""
    THEN /\ result' = Thrown("haveExistingMailbox", args, <<>>, "MissingParameter")
         /\ UNCHANGED <<config, provider, grab, fixture, async>>
    ELSE /\ createPc' = "getInbox"
         /\ result' = Outcome("haveExistingMailbox", args,
                              <<[fn |-> "getInbox", id |-> args[1]]>>, "pending", "",
                              Undefined)
         /\ UNCHANGED <<config, provider, grab, fixture, afterPc, deleteCalls, deleteStatus>>

\* A continuation that makes the inbox current without recording it.
inboxSettleNotRecorded(ok, inbox) ==
  /\ createPc' = "idle"
  /\ IF ~ok
       THEN /\ result' = [result EXCEPT !.status = "thrown", !.error = "ProviderError"]
            /\ UNCHANGED fixture
       ELSE IF Falsy(mailboxes)
         THEN /\ result' = [result EXCEPT !.status = "thrown", !.error = "TypeError"]
              /\ UNCHANGED fixture
         ELSE /\ currentMailbox' = inbox
              /\ result' = [result EXCEPT !.status = "returned", !.value = inbox]
              /\ UNCHANGED <<mailboxes, currentEmail>>
  /\ UNCHANGED <<config, provider, grab, afterPc, deleteCalls, deleteStatus>>

\* The continuation behind `await createInbox()` / `await getInbox(mailboxId)`:
\* the provider failed, or answered with inbox.
inboxSettle(ok, inbox) ==
  /\ createPc' = "idle"
  /\ IF ~ok
       THEN /\ result' = [result EXCEPT !.status = "thrown", !.error = "ProviderError"]
            /\ UNCHANGED fixture
       ELSE IF Falsy(mailboxes)
         THEN /\ result' = [result EXCEPT !.status = "thrown", !.error = "TypeError"]
              /\ UNCHANGED fixture
         ELSE /\ mailboxes' = Arr(Append(mailboxes.arr, inbox))
              /\ currentMailbox' = inbox
              /\ result' = [result EXCEPT !.status = "returned", !.value = inbox]
              /\ UNCHANGED currentEmail
  /\ UNCHANGED <<config, provider, grab, afterPc, deleteCalls, deleteStatus>>

\* Ids of inboxes the provider can create: a created inbox has a new id.
FreshIds ==
  IF Falsy(mailboxes) THEN MailboxIds
  ELSE MailboxIds \ {mailboxes.arr[i].id : i \in 1..Len(mailboxes.arr)}

createInboxSettle(ok, inbox) ==
  /\ createPc = "createInbox"
  /\ inbox.id \in FreshIds
  /\ inboxSettle(ok, inbox)

\* getInbox answers with the inbox of the id it was asked for.
getInboxSettle(ok) ==
  /\ createPc = "getInbox"
  /\ inboxSettle(ok, Inbox(result.calls[1].id))

(***************************************************************************)
(* openMailbox(mailbox), openEmail(email).                                 *)
(***************************************************************************)
openMailbox(mailbox) ==
  /\ currentMailbox' = mailbox
  /\ result' = Returned("openMailbox", <<mailbox>>, <<>>, Undefined)
  /\ UNCHANGED <<config, provider, grab, mailboxes, currentEmail, async>>

openEmail(email) ==
  /\ currentEmail' = email
  /\ result' = Returned("openEmail", <<email>>, <<>>, Undefined)
  /\ UNCHANGED <<config, provider, grab, mailboxes, currentMailbox, async>>

(***************************************************************************)
(* Strings.                                                                *)
(***************************************************************************)
\* String.prototype.includes / expect(s).toContain(t): t occurs in s.
Contains(s, t) ==
  \E i \in 0..(Len(s) - Len(t)) : SubSeq(s, i + 1, i + Len(t)) = t

\* String.prototype.toUpperCase, character by character.
UpperChar(c) ==
  CASE c = "a" -> "A" [] c = "b" -> "B" [] c = "c" -> "C" [] c = "o" -> "O"
    [] c = "t" -> "T" [] OTHER -> c
toUpperCase(s) == SeqMap(UpperChar, s)

(***************************************************************************)
(* matchEmailBy(options).  options is the query object as the sequence of  *)
(* its [key, value] entries in Object.entries order (insertion order for   *)
(* the string keys of a query); value[0] of an empty string is undefined.  *)
(***************************************************************************)
\* A rule that is EQUAL whenever the value holds a '=' anywhere.
matchRuleAnyEquals(entry) ==
  LET key == entry[1]
      value == entry[2]
  IN  IF Contains(value, <<"=">>)
        THEN [field |-> toUpperCase(key), value |-> value, should |-> "EQUAL"]
        ELSE [field |-> toUpperCase(key), value |-> value, should |-> "CONTAIN"]

matchRule(entry) ==
  LET key == entry[1]
      value == entry[2]
  IN  IF Len(value) > 0 /\ value[1] = "="
        THEN [field |-> toUpperCase(key), value |-> value, should |-> "EQUAL"]
        ELSE [field |-> toUpperCase(key), value |-> value, should |-> "CONTAIN"]

matchEmailBy(options) == [matches |-> SeqMap(matchRule, options)]

(* Query objects: entries with pairwise different keys. *)
Keys == {<<"t", "o">>, <<"c", "c">>, <<"C", "c">>}
Values == {<<>>, <<"=">>, <<"a", "=">>, <<"=", "a">>}
Entries == {<<k, v>> : k \in Keys, v \in Values}
Queries ==
  UNION { {q \in [1..n -> Entries] :
             \A i, j \in 1..n : i # j => q[i][1] # q[j][1]} : n \in 0..MaxFields }

(* Queries the wait and grab methods are called with. *)
WaitQueries ==
  { <<>>,
    << <<<<"C", "c">>, <<"=", "a">>>>, <<<<"t", "o">>, <<"a", "=">>>> >> }

(***************************************************************************)
(* The wait time handed to the provider.  sec is the argument list of the  *)
(* optional parameter: <<>> when the caller passes no wait time.           *)
(*   if (sec) sec = 1000*sec;  ...  sec || this.config.timeout             *)
(***************************************************************************)
TruthyNumber(sec) == Len(sec) > 0 /\ sec[1] # 0
secToMillis(sec) == IF TruthyNumber(sec) THEN <<1000 * sec[1]>> ELSE sec
secOrTimeout(sec) ==
  LET ms == secToMillis(sec)
  IN  IF TruthyNumber(ms) THEN ms[1] ELSE config.timeout

SecArgs == {<<>>} \cup {<<n>> : n \in 0..MaxSec}

(* Answers of the provider. *)
ProviderErrors == {[error |-> "Timeout"], [error |-> "ProviderError"]}
Preview(i) == [id |-> i]
PreviewLists ==
  UNION { {Arr(p) : p \in {l \in [1..n -> {Preview(i) : i \in EmailIds}] :
                             \A i, j \in 1..n : i # j => l[i] # l[j]}} :
          n \in 0..MaxPreviews }

\* this.currentMailbox.id throws a TypeError on null and undefined, before the
\* provider is called.
NoMailbox == Falsy(currentMailbox)

\* A method that returns silently when no mailbox is open.
missingMailboxSilent(op, args) == Returned(op, args, <<>>, Undefined)

\* The outcome of a method that reads this.currentMailbox.id without a mailbox.
missingMailbox(op, args) == Thrown(op, args, <<>>, "TypeError")

(***************************************************************************)
(* sendEmail(data): hands the call to the provider and returns its promise.*)
(***************************************************************************)
sendEmail(data, ok) ==
  /\ result' =
       IF NoMailbox THEN missingMailbox("sendEmail", <<data>>)
       ELSE LET call == [fn |-> "sendEmail", inboxId |-> currentMailbox.id, data |-> data]
            IN  IF ok THEN Returned("sendEmail", <<data>>, <<call>>, Undefined)
                ELSE Thrown("sendEmail", <<data>>, <<call>>, "ProviderError")
  /\ UNCHANGED <<config, provider, grab, fixture, async>>

(***************************************************************************)
(* waitForLatestEmail(sec), waitForNthEmail(number, sec): one provider     *)
(* call; the email it answers with becomes the current email.  answer is   *)
(* an email or one of ProviderErrors.                                      *)
(***************************************************************************)
waitForLatestEmail(sec, answer) ==
  IF NoMailbox
    THEN /\ result' = missingMailbox("waitForLatestEmail", <<sec>>)
         /\ UNCHANGED <<config, provider, grab, fixture, async>>
    ELSE LET call == [fn |-> "waitForLatestEmail", inboxId |-> currentMailbox.id,
                      timeout |-> secOrTimeout(sec)]
         IN  IF answer \in ProviderErrors
               THEN /\ result' = Thrown("waitForLatestEmail", <<sec>>, <<call>>, answer.error)
                    /\ UNCHANGED <<config, provider, grab, fixture, async>>
               ELSE /\ currentEmail' = answer
                    /\ result' = Returned("waitForLatestEmail", <<sec>>, <<call>>, answer)
                    /\ UNCHANGED <<config, provider, grab, mailboxes, currentMailbox, async>>

\* A wait that returns the email without opening it.
waitForNthEmailNotOpened(number, sec, answer) ==
  /\ result' =
       IF NoMailbox THEN missingMailbox("waitForNthEmail", <<number, sec>>)
       ELSE LET call == [fn |-> "waitForNthEmail", inboxId |-> currentMailbox.id,
                         index |-> number, timeout |-> secOrTimeout(sec)]
            IN  IF answer \in ProviderErrors
                  THEN Thrown("waitForNthEmail", <<number, sec>>, <<call>>, answer.error)
                  ELSE Returned("waitForNthEmail", <<number, sec>>, <<call>>, answer)
  /\ UNCHANGED <<config, provider, grab, fixture, async>>

waitForNthEmail(number, sec, answer) ==
  IF NoMailbox
    THEN /\ result' = missingMailbox("waitForNthEmail", <<number, sec>>)
         /\ UNCHANGED <<config, provider, grab, fixture, async>>
    ELSE LET call == [fn |-> "waitForNthEmail", inboxId |-> currentMailbox.id,
                      index |-> number, timeout |-> secOrTimeout(sec)]
         IN  IF answer \in ProviderErrors
               THEN /\ result' = Thrown("waitForNthEmail", <<number, sec>>, <<call>>, answer.error)
                    /\ UNCHANGED <<config, provider, grab, fixture, async>>
               ELSE /\ currentEmail' = answer
                    /\ result' = Returned("waitForNthEmail", <<number, sec>>, <<call>>, answer)
                    /\ UNCHANGED <<config, provider, grab, mailboxes, currentMailbox, async>>

(***************************************************************************)
(* waitForEmailMatching(query, sec): waits for one matching preview, then  *)
(* fetches the email of emailPreviews[0] and makes it the current email.   *)
(* previews is an array of previews or one of ProviderErrors; getOk tells  *)
(* whether getEmail succeeds.  emailPreviews[0].id of an empty list throws *)
(* a TypeError.                                                            *)
(***************************************************************************)
waitForMatchingEmailsCall(query, count, timeout) ==
  [fn |-> "waitForMatchingEmails", matchOptions |-> matchEmailBy(query), count |-> count,
   inboxId |-> currentMailbox.id, timeout |-> timeout]

getEmailCall(preview) == [fn |-> "getEmail", id |-> preview.id]

\* The call together with what the provider's promise settled with: the
\* value bound to emailPreviews, or the rejection.
answered(call, answer) == ObjectAssign(call, [answer |-> answer])

\* emailPreviews[N] in place of emailPreviews[0].
lastPreview(emailPreviews) == emailPreviews[Len(emailPreviews)]

\* emailPreviews[0]
firstPreview(emailPreviews) == emailPreviews[1]

waitForEmailMatching(query, sec, previews, getOk) ==
  LET op == "waitForEmailMatching"
      args == <<query, sec>>
  IN
  IF NoMailbox
    THEN /\ result' = missingMailbox(op, args)
         /\ UNCHANGED <<config, provider, grab, fixture, async>>
    ELSE LET wait == answered(waitForMatchingEmailsCall(query, 1, secOrTimeout(sec)), previews)
             first == firstPreview(previews.arr)
         IN  IF previews \in ProviderErrors
               THEN /\ result' = Thrown(op, args, <<wait>>, previews.error)
                    /\ UNCHANGED <<config, provider, grab, fixture, async>>
             ELSE IF Len(previews.arr) = 0
               THEN /\ result' = Thrown(op, args, <<wait>>, "TypeError")
                    /\ UNCHANGED <<config, provider, grab, fixture, async>>
             ELSE IF ~getOk
               THEN /\ result' = Thrown(op, args, <<wait, getEmailCall(first)>>, "ProviderError")
                    /\ UNCHANGED <<config, provider, grab, fixture, async>>
             ELSE /\ currentEmail' = EmailById(first.id)
                  /\ result' = Returned(op, args, <<wait, getEmailCall(first)>>,
                                        EmailById(first.id))
                  /\ UNCHANGED <<config, provider, grab, mailboxes, currentMailbox, async>>

(***************************************************************************)
(* grabEmailsMatching(query, num), grabAllEmailsFromMailbox(): a preview   *)
(* list from the provider, then Promise.all over one getEmail call per     *)
(* preview.  failed is the set of getEmail calls that reject.              *)
(***************************************************************************)
resolvePreviews(op, args, first, previews, failed) ==
  LET calls == <<first>> \o SeqMap(getEmailCall, previews)
  IN  IF failed # {}
        THEN Thrown(op, args, calls, "ProviderError")
        ELSE Returned(op, args, calls, [i \in 1..Len(previews) |-> EmailById(previews[i].id)])

grabEmailsMatching(query, num, previews, failed) ==
  /\ result' =
       IF NoMailbox THEN missingMailbox("grabEmailsMatching", <<query, num>>)
       ELSE LET wait == answered(waitForMatchingEmailsCall(query, num, config.timeout),
                                 previews)
            IN  IF previews \in ProviderErrors
                  THEN Thrown("grabEmailsMatching", <<query, num>>, <<wait>>, previews.error)
                  ELSE resolvePreviews("grabEmailsMatching", <<query, num>>, wait, previews.arr,
                                       failed \cap (1..Len(previews.arr)))
  /\ UNCHANGED <<config, provider, grab, fixture, async>>

\* A grab that opens the last email it returns.
grabAllEmailsFromMailboxOpensLast(previews, failed) ==
  LET r == IF NoMailbox THEN missingMailbox("grabAllEmailsFromMailbox", <<>>)
           ELSE LET list == answered([fn |-> "getEmails", inboxId |-> currentMailbox.id],
                                     previews)
                IN  IF previews \in ProviderErrors
                      THEN Thrown("grabAllEmailsFromMailbox", <<>>, <<list>>, previews.error)
                      ELSE resolvePreviews("grabAllEmailsFromMailbox", <<>>, list,
                                           previews.arr, failed \cap (1..Len(previews.arr)))
  IN  /\ result' = r
      /\ currentEmail' = IF r.status = "returned" /\ Len(r.value) > 0
                           THEN r.value[Len(r.value)] ELSE currentEmail
      /\ UNCHANGED <<config, provider, grab, mailboxes, currentMailbox, async>>

grabAllEmailsFromMailbox(previews, failed) ==
  /\ result' =
       IF NoMailbox THEN missingMailbox("grabAllEmailsFromMailbox", <<>>)
       ELSE LET list == answered([fn |-> "getEmails", inboxId |-> currentMailbox.id],
                                     previews)
            IN  IF previews \in ProviderErrors
                  THEN Thrown("grabAllEmailsFromMailbox", <<>>, <<list>>, previews.error)
                  ELSE resolvePreviews("grabAllEmailsFromMailbox", <<>>, list, previews.arr,
                                       failed \cap (1..Len(previews.arr)))
  /\ UNCHANGED <<config, provider, grab, fixture, async>>

(***************************************************************************)
(* Content assertions.  Each starts with this._hasCurrentEmail(), which    *)
(* throws 'No email opened' when this.currentEmail is falsy; reading a     *)
(* property of null or undefined would throw a TypeError.                  *)
(***************************************************************************)
\* A check that lets undefined through.
_hasCurrentEmailNullOnly == currentEmail # Null

\* TRUE when _hasCurrentEmail() does not throw.
_hasCurrentEmail == ~Falsy(currentEmail)

expectStep(op, args, Passes(_)) ==
  /\ result' =
       IF ~_hasCurrentEmail THEN Thrown(op, args, <<>>, "NoEmailOpened")
       ELSE IF Falsy(currentEmail) THEN Thrown(op, args, <<>>, "TypeError")
       ELSE IF Passes(currentEmail) THEN Returned(op, args, <<>>, Undefined)
       ELSE Thrown(op, args, <<>>, "AssertionFailed")
  /\ UNCHANGED <<config, provider, grab, fixture, async>>

seeInEmailSubject(text) ==
  expectStep("seeInEmailSubject", <<text>>, LAMBDA email : Contains(email.subject, text))

\* A negated assertion that compares for equality where containment is meant.
dontSeeInEmailSubjectNotEqual(text) ==
  expectStep("dontSeeInEmailSubject", <<text>>, LAMBDA email : email.subject # text)

dontSeeInEmailSubject(text) ==
  expectStep("dontSeeInEmailSubject", <<text>>, LAMBDA email : ~Contains(email.subject, text))

seeInEmailBody(text) ==
  expectStep("seeInEmailBody", <<text>>, LAMBDA email : Contains(email.body, text))

dontSeeInEmailBody(text) ==
  expectStep("dontSeeInEmailBody", <<text>>, LAMBDA email : ~Contains(email.body, text))

seeEmailIsFrom(text) ==
  expectStep("seeEmailIsFrom", <<text>>, LAMBDA email : Contains(email.from, text))

seeEmailSubjectEquals(text) ==
  expectStep("seeEmailSubjectEquals", <<text>>, LAMBDA email : email.subject = text)

dontSeeEmailSubjectEquals(text) ==
  expectStep("dontSeeEmailSubjectEquals", <<text>>, LAMBDA email : email.subject # text)

seeNumberOfEmailAttachments(number) ==
  expectStep("seeNumberOfEmailAttachments", <<number>>,
             LAMBDA email : Len(email.attachments) = number)

(***************************************************************************)
(* seeEmailAttachment(nameRegExp): resolves the attachments of the current *)
(* email one by one and returns at the first name that matches.  Patterns  *)
(* are literal texts, for which RegExp matching is a substring search.     *)
(* names gives the name the provider holds for each attachment id; failAt  *)
(* is the index of the getAttachmentMetaData call that rejects (0: none).  *)
(***************************************************************************)
RegExpMatch(name, pattern) == Contains(name, pattern)

getAttachmentMetaDataCall(attachmentId, emailId) ==
  [fn |-> "getAttachmentMetaData", attachmentId |-> attachmentId, emailId |-> emailId]

\* What the failed expect() of seeEmailAttachment reports: the pattern, the
\* subject of the email and the names pushed on foundAttachmentNames.
notFoundMessage(nameRegExp, email, foundAttachmentNames) ==
  [nameRegExp |-> nameRegExp, subject |-> email.subject, found |-> foundAttachmentNames]

\* A loop that resolves every attachment before it looks for a match.
RECURSIVE attachmentLoopNoEarlyReturn(_, _, _, _, _, _, _)
attachmentLoopNoEarlyReturn(email, pattern, names, failAt, i, calls, foundAttachmentNames) ==
  IF i > Len(email.attachments)
    THEN IF \E j \in 1..Len(foundAttachmentNames) :
                RegExpMatch(foundAttachmentNames[j], pattern)
           THEN [status |-> "returned", error |-> "", calls |-> calls, value |-> Undefined]
           ELSE [status |-> "thrown", error |-> "AssertionFailed", calls |-> calls,
                 value |-> notFoundMessage(pattern, email, foundAttachmentNames)]
  ELSE LET call == getAttachmentMetaDataCall(email.attachments[i], email.id)
           name == names[email.attachments[i]]
       IN  IF i = failAt
             THEN [status |-> "thrown", error |-> "ProviderError",
                   calls |-> Append(calls, answered(call, [error |-> "ProviderError"])),
                   value |-> Undefined]
           ELSE attachmentLoopNoEarlyReturn(email, pattern, names, failAt, i + 1,
                                            Append(calls, answered(call, [name |-> name])),
                                            Append(foundAttachmentNames, name))

RECURSIVE attachmentLoop(_, _, _, _, _, _, _)
attachmentLoop(email, pattern, names, failAt, i, calls, foundAttachmentNames) ==
  IF i > Len(email.attachments)
    THEN [status |-> "thrown", error |-> "AssertionFailed", calls |-> calls,
          value |-> notFoundMessage(pattern, email, foundAttachmentNames)]
  ELSE LET call == getAttachmentMetaDataCall(email.attachments[i], email.id)
           name == names[email.attachments[i]]
       IN  IF i = failAt
             THEN [status |-> "thrown", error |-> "ProviderError",
                   calls |-> Append(calls, answered(call, [error |-> "ProviderError"])),
                   value |-> Undefined]
           ELSE IF RegExpMatch(name, pattern)
             THEN [status |-> "returned", error |-> "",
                   calls |-> Append(calls, answered(call, [name |-> name])),
                   value |-> Undefined]
           ELSE attachmentLoop(email, pattern, names, failAt, i + 1,
                               Append(calls, answered(call, [name |-> name])),
                               Append(foundAttachmentNames, name))

seeEmailAttachment(nameRegExp, names, failAt) ==
  /\ result' =
       IF ~_hasCurrentEmail THEN Thrown("seeEmailAttachment", <<nameRegExp>>, <<>>,
                                        "NoEmailOpened")
       ELSE IF Falsy(currentEmail) THEN Thrown("seeEmailAttachment", <<nameRegExp>>, <<>>,
                                               "TypeError")
       ELSE LET r == attachmentLoop(currentEmail, nameRegExp, names, failAt, 1, <<>>, <<>>)
            IN  Outcome("seeEmailAttachment", <<nameRegExp>>, r.calls, r.status, r.error,
                        r.value)
  /\ UNCHANGED <<config, provider, grab, fixture, async>>

(* Arguments of the calls and data of the provider. *)
Texts == {<<>>, <<"a">>, <<"b">>}
AttachmentIds == {"x", "y"}
AttachmentNames == {<<"a">>, <<"b">>}

MailData == [subject |-> <<"a">>, body |-> <<"b">>]
Numbers == 1..MaxPreviews

\* The provider answers that matter for a preview answer: getEmail is only
\* called for a non-empty preview list.
PreviewCount(previews) == IF previews \in ProviderErrors THEN 0 ELSE Len(previews.arr)
GetOutcomes(previews) == IF PreviewCount(previews) = 0 THEN {TRUE} ELSE BOOLEAN

\* Room left in this.mailboxes under the bound of the model.
HasRoom == IF Falsy(mailboxes) THEN TRUE ELSE Len(mailboxes.arr) < MaxMailboxes

Next ==
  \/ Idle /\ _before
  \/ Idle /\ _afterCall
  \/ \E i \in 1..MaxMailboxes, ok \in BOOLEAN : deleteInboxSettle(i, ok)
  \/ _afterResume
  \/ Idle /\ HasRoom /\ FreshIds # {} /\ haveNewMailboxCall
  \/ Idle /\ HasRoom /\ \E args \in {<<>>, <<"">>} \cup {<<i>> : i \in MailboxIds} :
                          haveExistingMailboxCall(args)
  \/ \E ok \in BOOLEAN, inbox \in Inboxes : createInboxSettle(ok, inbox)
  \/ \E ok \in BOOLEAN : getInboxSettle(ok)
  \/ Idle /\ \E m \in Inboxes \cup {Null} : openMailbox(m)
  \/ Idle /\ \E e \in Emails \cup {Null} : openEmail(e)
  \/ Idle /\ \E ok \in BOOLEAN : sendEmail(MailData, ok)
  \/ Idle /\ \E sec \in SecArgs, answer \in Emails \cup ProviderErrors :
               waitForLatestEmail(sec, answer)
  \/ Idle /\ \E n \in Numbers, sec \in SecArgs, answer \in Emails \cup ProviderErrors :
               waitForNthEmail(n, sec, answer)
  \/ Idle /\ \E q \in WaitQueries, sec \in SecArgs,
                  previews \in PreviewLists \cup ProviderErrors :
               \E getOk \in GetOutcomes(previews) :
                 waitForEmailMatching(q, sec, previews, getOk)
  \/ Idle /\ \E q \in WaitQueries, n \in Numbers,
                  previews \in PreviewLists \cup ProviderErrors :
               \E failed \in SUBSET (1..PreviewCount(previews)) :
                 grabEmailsMatching(q, n, previews, failed)
  \/ Idle /\ \E previews \in PreviewLists \cup ProviderErrors :
               \E failed \in SUBSET (1..PreviewCount(previews)) :
                 grabAllEmailsFromMailbox(previews, failed)
  \/ Idle /\ \E t \in Texts : seeInEmailSubject(t)
  \/ Idle /\ \E t \in Texts : dontSeeInEmailSubject(t)
  \/ Idle /\ \E t \in Texts : seeInEmailBody(t)
  \/ Idle /\ \E t \in Texts : dontSeeInEmailBody(t)
  \/ Idle /\ \E t \in Texts : seeEmailIsFrom(t)
  \/ Idle /\ \E t \in Texts : seeEmailSubjectEquals(t)
  \/ Idle /\ \E t \in Texts : dontSeeEmailSubjectEquals(t)
  \/ Idle /\ \E n \in 0..MaxPreviews : seeNumberOfEmailAttachments(n)
  \/ Idle /\ \E t \in Texts, names \in [AttachmentIds -> AttachmentNames],
                  failAt \in 0..Cardinality(AttachmentIds) :
               seeEmailAttachment(t, names, failAt)

Spec == Init /\ [][Next]_vars

(***************************************************************************)
(* matchEmailBy applied to every query of Queries.                         *)
(***************************************************************************)
matchEmailByApply(query) ==
  /\ result' = Returned("matchEmailBy", <<query>>, <<>>, matchEmailBy(query))
  /\ UNCHANGED <<config, provider, grab, fixture, async>>

NextMatch == \E q \in Queries : matchEmailByApply(q)

SpecMatch == Init /\ [][NextMatch]_vars

(***************************************************************************)
(* new MailSlurp(config).  Before the constructor has returned there is no *)
(* helper object: config is Undefined and no method can be called.  A      *)
(* constructor that throws leaves no object behind, although it had        *)
(* assigned this.config before the check.                                  *)
(***************************************************************************)
Constructed == config # Undefined

newMailSlurpClient(cfg) ==
  [fn |-> "new MailSlurpClient", apiKey |-> cfg.apiKey, attribution |-> "codeceptjs"]

constructor(c) ==
  /\ ~Constructed
  /\ IF ConfigOk(c)
       THEN LET cfg == ObjectAssign(defaults, c)
            IN  /\ config' = cfg
                /\ result' = Returned("constructor", <<c>>, <<newMailSlurpClient(cfg)>>,
                                      Undefined)
       ELSE /\ config' = config
            /\ result' = Thrown("constructor", <<c>>, <<>>, "NotConfigured")
  /\ UNCHANGED <<fixture, async, provider, grab>>

InitNew ==
  /\ config = Undefined
  /\ mailboxes = Undefined
  /\ currentMailbox = Undefined
  /\ currentEmail = Undefined
  /\ afterPc = "idle"
  /\ deleteCalls = <<>>
  /\ deleteStatus = <<>>
  /\ createPc = "idle"
  /\ provider = [delivered |-> 0, elapsed |-> FALSE]
  /\ grab = [pc |-> "idle", previews |-> <<>>, settled |-> <<>>, order |-> <<>>]
  /\ result = [op |-> "require", args |-> <<>>, pre |-> Snapshot, calls |-> <<>>,
               status |-> "returned", error |-> "", value |-> Undefined]

NextNew ==
  \/ \E c \in UserConfigs : constructor(c)
  \/ Constructed /\ Next

SpecNew == InitNew /\ [][NextNew]_vars

(***************************************************************************)
(* waitForNthEmail(number, sec) step by step: the helper issues the        *)
(* provider call and awaits it; meanwhile messages arrive in the mailbox   *)
(* and time passes; when the provider's promise settles the helper         *)
(* resumes.  The provider's part follows its contract: it fulfils the      *)
(* promise with the n-th message once the mailbox holds n messages, and    *)
(* rejects it with a Timeout error once the timeout of the call has        *)
(* elapsed with fewer.                                                     *)
(***************************************************************************)
NthPending == result.op = "waitForNthEmail" /\ result.status = "pending"

waitForNthEmailCall(number, sec) ==
  IF NoMailbox
    THEN /\ result' = missingMailbox("waitForNthEmail", <<number, sec>>)
         /\ UNCHANGED <<config, provider, grab, fixture, async>>
    ELSE /\ result' = Outcome("waitForNthEmail", <<number, sec>>,
                              <<[fn |-> "waitForNthEmail", inboxId |-> currentMailbox.id,
                                 index |-> number, timeout |-> secOrTimeout(sec)]>>,
                              "pending", "", Undefined)
         /\ provider' = [provider EXCEPT !.elapsed = FALSE]
         /\ UNCHANGED <<config, grab, fixture, async>>

\* A message arrives in the mailbox.
providerDeliver ==
  /\ provider.delivered < MaxPreviews
  /\ provider' = [provider EXCEPT !.delivered = @ + 1]
  /\ UNCHANGED <<config, grab, fixture, async, result>>

\* The timeout of the call in flight elapses.
providerElapse ==
  /\ NthPending
  /\ ~provider.elapsed
  /\ provider' = [provider EXCEPT !.elapsed = TRUE]
  /\ UNCHANGED <<config, grab, fixture, async, result>>

\* What the provider's promise can settle with in the current state.
nthAnswers ==
  IF ~NthPending THEN {}
  ELSE IF provider.delivered >= result.calls[1].index THEN Emails
  ELSE IF provider.elapsed THEN {[error |-> "Timeout"]}
  ELSE {}

\* A continuation that catches the rejection and carries on without email.
waitForNthEmailResumeCaught(answer) ==
  /\ NthPending
  /\ IF answer \in ProviderErrors
       THEN /\ currentEmail' = Undefined
            /\ result' = [result EXCEPT !.status = "returned"]
       ELSE /\ currentEmail' = answer
            /\ result' = [result EXCEPT !.status = "returned", !.value = answer]
  /\ UNCHANGED <<config, provider, grab, mailboxes, currentMailbox, async>>

\* The continuation behind `await this.mailslurp.waitForNthEmail(...)`.
waitForNthEmailResume(answer) ==
  /\ NthPending
  /\ IF answer \in ProviderErrors
       THEN /\ result' = [result EXCEPT !.status = "thrown", !.error = answer.error]
            /\ UNCHANGED currentEmail
       ELSE /\ currentEmail' = answer
            /\ result' = [result EXCEPT !.status = "returned", !.value = answer]
  /\ UNCHANGED <<config, provider, grab, mailboxes, currentMailbox, async>>

nthSettle == \E answer \in nthAnswers : waitForNthEmailResume(answer)

NextNth ==
  \/ ~NthPending /\ _before
  \/ ~NthPending /\ \E m \in Inboxes \cup {Null} : openMailbox(m)
  \/ ~NthPending /\ \E e \in Emails \cup {Null} : openEmail(e)
  \/ ~NthPending /\ \E n \in Numbers, sec \in SecArgs : waitForNthEmailCall(n, sec)
  \/ providerDeliver
  \/ providerElapse
  \/ nthSettle

\* Time passes, and a promise that can settle does settle and its
\* continuation runs.
SpecNth ==
  Init /\ [][NextNth]_vars /\ WF_vars(providerElapse) /\ WF_vars(nthSettle)

(***************************************************************************)
(* grabEmailsMatching(query, num) and grabAllEmailsFromMailbox() step by   *)
(* step: the helper issues the preview call and awaits it; behind the      *)
(* await it issues one getEmail call per preview, all before any of them   *)
(* settles, and awaits Promise.all over them; the provider settles the     *)
(* calls one at a time, in any order.                                      *)
(***************************************************************************)
GrabIdle == grab.pc = "idle"

grabCall(op, args, first) ==
  IF NoMailbox
    THEN /\ result' = missingMailbox(op, args)
         /\ UNCHANGED <<config, provider, grab, fixture, async>>
    ELSE /\ result' = Outcome(op, args, <<first>>, "pending", "", Undefined)
         /\ grab' = [pc |-> "previews", previews |-> <<>>, settled |-> <<>>, order |-> <<>>]
         /\ UNCHANGED <<config, provider, fixture, async>>

grabEmailsMatchingCall(query, num) ==
  grabCall("grabEmailsMatching", <<query, num>>,
           IF NoMailbox THEN Undefined
           ELSE waitForMatchingEmailsCall(query, num, config.timeout))

grabAllEmailsFromMailboxCall ==
  grabCall("grabAllEmailsFromMailbox", <<>>,
           IF NoMailbox THEN Undefined
           ELSE [fn |-> "getEmails", inboxId |-> currentMailbox.id])

\* The continuation behind the first await: the provider failed, or answered
\* with previews and emailPreviews.map(e => this.mailslurp.getEmail(e.id))
\* issues every getEmail call.
previewsSettle(previews) ==
  /\ grab.pc = "previews"
  /\ IF previews \in ProviderErrors
       THEN /\ result' = [result EXCEPT !.calls = <<answered(@[1], previews)>>,
                                        !.status = "thrown", !.error = previews.error]
            /\ grab' = [grab EXCEPT !.pc = "idle"]
       ELSE /\ result' = [result EXCEPT !.calls = <<answered(@[1], previews)>> \o
                                                  SeqMap(getEmailCall, previews.arr)]
            /\ grab' = [pc |-> "awaiting", previews |-> previews.arr,
                        settled |-> [i \in 1..Len(previews.arr) |-> Undefined],
                        order |-> <<>>]
  /\ UNCHANGED <<config, provider, fixture, async>>

\* The provider settles one getEmail call: with the email of the id it was
\* asked for, or with a failure.
getEmailSettle(i, ok) ==
  /\ grab.pc = "awaiting"
  /\ i \in 1..Len(grab.settled)
  /\ grab.settled[i] = Undefined
  /\ grab' = [grab EXCEPT !.settled[i] = IF ok THEN EmailById(grab.previews[i].id)
                                         ELSE [error |-> "ProviderError"],
                          !.order = Append(@, i)]
  /\ UNCHANGED <<config, provider, fixture, async, result>>

\* A join that collects the values in the order in which the calls settled.
promiseAllInCompletionOrder(settled, order) == [k \in 1..Len(order) |-> settled[order[k]]]

\* The value Promise.all fulfils with: the values of the promises, each at
\* the index of its promise.
promiseAll(settled, order) == settled

\* The continuation behind `Promise.all(...)`: it rejects as soon as one
\* getEmail call has rejected, and fulfils when all have fulfilled.
grabResume ==
  /\ grab.pc = "awaiting"
  /\ \/ /\ \E i \in 1..Len(grab.settled) : grab.settled[i] \in ProviderErrors
        /\ result' = [result EXCEPT !.status = "thrown", !.error = "ProviderError"]
     \/ /\ \A i \in 1..Len(grab.settled) : grab.settled[i] \in Emails
        /\ result' = [result EXCEPT !.status = "returned",
                                    !.value = promiseAll(grab.settled, grab.order)]
  /\ grab' = [grab EXCEPT !.pc = "idle"]
  /\ UNCHANGED <<config, provider, fixture, async>>

NextGrab ==
  \/ GrabIdle /\ _before
  \/ GrabIdle /\ \E m \in Inboxes \cup {Null} : openMailbox(m)
  \/ GrabIdle /\ \E e \in Emails \cup {Null} : openEmail(e)
  \/ GrabIdle /\ \E q \in WaitQueries, n \in Numbers : grabEmailsMatchingCall(q, n)
  \/ GrabIdle /\ grabAllEmailsFromMailboxCall
  \/ \E previews \in PreviewLists \cup ProviderErrors : previewsSettle(previews)
  \/ \E i \in 1..MaxPreviews, ok \in BOOLEAN : getEmailSettle(i, ok)
  \/ grabResume

SpecGrab == Init /\ [][NextGrab]_vars

(***************************************************************************)
(* The lifecycle with a creation the test did not await: haveNewMailbox()  *)
(* or haveExistingMailbox(id) is started while the test runs, and _after() *)
(* may start, await its deleteInbox calls and resume while the creation is *)
(* still awaiting the provider.  result then follows the method that       *)
(* started last, and a settling method marks it.                           *)
(***************************************************************************)
\* getInbox settles for a haveExistingMailbox whose call record _after() has
\* replaced in result: the answer is the inbox of the id the call named,
\* which was any of MailboxIds.
getInboxSettleOverlapped(ok, inbox) ==
  /\ createPc = "getInbox"
  /\ inboxSettle(ok, inbox)

NextRace ==
  \/ Idle /\ _before
  \/ afterPc = "idle" /\ _afterCall
  \/ \E i \in 1..MaxMailboxes, ok \in BOOLEAN : deleteInboxSettle(i, ok)
  \/ _afterResume
  \/ Idle /\ HasRoom /\ FreshIds # {} /\ haveNewMailboxCall
  \/ Idle /\ HasRoom /\ \E args \in {<<i>> : i \in MailboxIds} : haveExistingMailboxCall(args)
  \/ \E ok \in BOOLEAN, inbox \in Inboxes : createInboxSettle(ok, inbox)
  \/ \E ok \in BOOLEAN, inbox \in Inboxes : getInboxSettleOverlapped(ok, inbox)

SpecRace == Init /\ [][NextRace]_vars

(***************************************************************************)
(* Properties of the fixture lifecycle.                                    *)
(***************************************************************************)
AfterRan == result.op = "_after" /\ ~Falsy(result.pre.mailboxes)
AfterDone == AfterRan /\ result.status # "pending"
Cleared == mailboxes = Arr(<<>>) /\ currentMailbox = Null /\ currentEmail = Null

RecordedIds(boxes) == {boxes[i].id : i \in 1..Len(boxes)}
DeleteCount(calls, id) ==
  Cardinality({i \in 1..Len(calls) : calls[i].fn = "deleteInbox" /\ calls[i].id = id})

\* C1: _after() issues deleteInbox exactly once for each distinct mailbox id
\* recorded during the test, also when one id was recorded twice.
C1_DeleteExactlyOncePerId ==
  AfterRan =>
    \A id \in MailboxIds :
      DeleteCount(result.calls, id) =
        IF id \in RecordedIds(result.pre.mailboxes.arr) THEN 1 ELSE 0

\* C2: _after() issues one deleteInbox call for every recorded mailbox, in the
\* order of this.mailboxes, whichever of the calls fail.
C2_DeleteIssuedForEveryMailbox ==
  AfterRan =>
    /\ Len(result.calls) = Len(result.pre.mailboxes.arr)
    /\ \A i \in 1..Len(result.calls) :
         result.calls[i] = [fn |-> "deleteInbox", id |-> result.pre.mailboxes.arr[i].id]

\* _after() has failed on a rejected delete, with MaxMailboxes mailboxes
\* recorded and as many calls issued.
C2_Witness ==
  /\ AfterDone
  /\ result.status = "thrown"
  /\ Len(result.pre.mailboxes.arr) = MaxMailboxes
  /\ Len(result.calls) = MaxMailboxes

\* C3: once _after() has finished with a failed deleteInbox call, the fixture
\* state is empty.
C3_ClearedAfterFailedDelete ==
  (AfterDone /\ result.status = "thrown") => Cleared

\* C4: after every _after() that completed successfully the fixture state is
\* cleared, also when no mailbox was recorded.
C4_ClearedAfterSuccessfulAfter ==
  (AfterDone /\ result.status = "returned") => Cleared

(***************************************************************************)
(* Properties of the preconditions.                                        *)
(***************************************************************************)
Assertions ==
  {"seeInEmailSubject", "dontSeeInEmailSubject", "seeInEmailBody", "dontSeeInEmailBody",
   "seeEmailIsFrom", "seeEmailSubjectEquals", "dontSeeEmailSubjectEquals",
   "seeNumberOfEmailAttachments", "seeEmailAttachment"}

MailboxMethods ==
  {"sendEmail", "waitForLatestEmail", "waitForEmailMatching", "waitForNthEmail",
   "grabEmailsMatching", "grabAllEmailsFromMailbox"}

\* C5: without a current email every content assertion fails with the
\* 'No email opened' error, calls the provider never and leaves the fixture
\* state as it was.
C5_AssertionNeedsOpenEmail ==
  (result.op \in Assertions /\ Falsy(result.pre.currentEmail)) =>
    /\ result.status = "thrown"
    /\ result.error = "NoEmailOpened"
    /\ result.calls = <<>>
    /\ Snapshot = result.pre

\* seeEmailAttachment was called in a test after _before(), with no email open.
C5_Witness ==
  /\ result.op = "seeEmailAttachment"
  /\ result.pre.currentEmail = Null
  /\ result.error = "NoEmailOpened"

\* C6: without a current mailbox the send, wait and grab methods fail: no
\* result, no provider call, fixture state unchanged.
C6_MailboxMethodNeedsMailbox ==
  (result.op \in MailboxMethods /\ Falsy(result.pre.currentMailbox)) =>
    /\ result.status = "thrown"
    /\ result.value = Undefined
    /\ result.calls = <<>>
    /\ Snapshot = result.pre

\* grabEmailsMatching was called after _before(), with no mailbox open.
C6_Witness ==
  /\ result.op = "grabEmailsMatching"
  /\ result.pre.currentMailbox = Null
  /\ result.status = "thrown"

(***************************************************************************)
(* Properties of the query translation.                                    *)
(***************************************************************************)
UpperCased(key) ==
  CASE key = <<"t", "o">> -> <<"T", "O">>
    [] key = <<"c", "c">> -> <<"C", "C">>
    [] key = <<"C", "c">> -> <<"C", "C">>

StartsWithEquals(value) == value \in {<<"=">>, <<"=", "a">>}

\* C7: for a query with at least one field matchEmailBy returns one rule per
\* field, in the order of the fields, with the upper-cased key as field and
\* with rule EQUAL exactly when the value starts with '=', CONTAIN otherwise.
C7_OneRulePerField ==
  (result.op = "matchEmailBy" /\ Len(result.args[1]) >= 1) =>
    LET query == result.args[1]
        rules == result.value.matches
    IN  /\ Len(rules) = Len(query)
        /\ \A i \in 1..Len(query) :
             /\ rules[i].field = UpperCased(query[i][1])
             /\ rules[i].should =
                  IF StartsWithEquals(query[i][2]) THEN "EQUAL" ELSE "CONTAIN"

\* matchEmailBy was applied to a query of two fields, the first with an EQUAL
\* value and the second with a '=' behind the first character.
C7_Witness ==
  /\ result.op = "matchEmailBy"
  /\ result.args[1] = << <<<<"C", "c">>, <<"=", "a">>>>, <<<<"t", "o">>, <<"a", "=">>>> >>
  /\ result.status = "returned"

WaitsIssued(calls) == {i \in 1..Len(calls) : calls[i].fn = "waitForMatchingEmails"}

\* C8: waitForEmailMatching({}) and grabEmailsMatching({}) fail with
\* InvalidQuery before any provider wait call is issued.
C8_EmptyQueryRejected ==
  ( /\ result.op \in {"waitForEmailMatching", "grabEmailsMatching"}
    /\ ~Falsy(result.pre.currentMailbox)
    /\ result.args[1] = <<>> ) =>
    /\ result.status = "thrown"
    /\ result.error = "InvalidQuery"
    /\ WaitsIssued(result.calls) = {}

\* C9: an EQUAL rule sent to the provider carries the value without its
\* leading '='.
C9_EqualValueStripped ==
  result.op \in {"waitForEmailMatching", "grabEmailsMatching"} =>
    \A i \in WaitsIssued(result.calls) :
      LET rules == result.calls[i].matchOptions.matches
      IN  \A j \in 1..Len(rules) :
            rules[j].should = "EQUAL" => rules[j].value = Tail(result.args[1][j][2])

\* C10: the wait methods hand sec * 1000 to the provider for every explicit
\* wait time sec >= 0, and config.timeout only when no wait time is passed.
C10_ExplicitWaitTimeInMillis ==
  ( /\ result.op \in {"waitForLatestEmail", "waitForEmailMatching", "waitForNthEmail"}
    /\ Len(result.calls) > 0 ) =>
    LET sec == result.args[Len(result.args)]
    IN  result.calls[1].timeout = IF Len(sec) = 0 THEN config.timeout ELSE sec[1] * 1000

(***************************************************************************)
(* Properties of the wait and grab methods.                                *)
(***************************************************************************)
WaitMethods == {"waitForLatestEmail", "waitForEmailMatching", "waitForNthEmail"}
GrabMethods == {"grabEmailsMatching", "grabAllEmailsFromMailbox"}

\* C11: after a successful waitForLatestEmail, waitForEmailMatching or
\* waitForNthEmail the current email is the message the method returned, and
\* mailboxes and currentMailbox are as before the call.
C11_WaitOpensReturnedEmail ==
  (result.op \in WaitMethods /\ result.status = "returned") =>
    /\ currentEmail = result.value
    /\ result.value \in Emails
    /\ mailboxes = result.pre.mailboxes
    /\ currentMailbox = result.pre.currentMailbox

\* waitForNthEmail has returned an email other than the one that was open.
C11_Witness ==
  /\ result.op = "waitForNthEmail"
  /\ result.status = "returned"
  /\ result.pre.currentEmail \in Emails
  /\ result.pre.currentEmail # result.value

\* C12: grabEmailsMatching and grabAllEmailsFromMailbox leave currentEmail,
\* currentMailbox and mailboxes as they were, whether they succeed or fail.
C12_GrabKeepsFixture ==
  result.op \in GrabMethods => Snapshot = result.pre

\* grabAllEmailsFromMailbox has returned two emails while another email, or
\* none, stayed open.
C12_Witness ==
  /\ result.op = "grabAllEmailsFromMailbox"
  /\ result.status = "returned"
  /\ Len(result.value) = 2
  /\ currentEmail # result.value[2]

\* C13: waitForEmailMatching asks the provider for exactly one matching
\* message in the current mailbox; when it succeeds, the email returned and
\* opened is the one of the first preview of the provider's answer, and
\* getEmail was called once, for that preview.
C13_FirstPreviewOpened ==
  (result.op = "waitForEmailMatching" /\ Len(result.calls) > 0) =>
    /\ result.calls[1].fn = "waitForMatchingEmails"
    /\ result.calls[1].count = 1
    /\ result.calls[1].inboxId = result.pre.currentMailbox.id
    /\ result.status = "returned" =>
         LET previews == result.calls[1].answer.arr
         IN  /\ Len(previews) >= 1
             /\ Len(result.calls) = 2
             /\ result.calls[2] = [fn |-> "getEmail", id |-> previews[1].id]
             /\ result.value.id = previews[1].id
             /\ currentEmail = result.value

\* waitForEmailMatching has succeeded on an answer of two previews.
C13_Witness ==
  /\ result.op = "waitForEmailMatching"
  /\ result.status = "returned"
  /\ Len(result.calls[1].answer.arr) = 2

\* The number of messages a matching wait asked the provider for, and
\* whether the provider answered with fewer previews than that.
Requested == result.calls[1].count
AnsweredFewer ==
  /\ result.op \in {"grabEmailsMatching", "waitForEmailMatching"}
  /\ Len(result.calls) > 0
  /\ result.calls[1].answer \in PreviewLists
  /\ Len(result.calls[1].answer.arr) < Requested

\* C14: a matching wait never succeeds with fewer messages than requested:
\* a successful grabEmailsMatching(query, num) returns at least num emails,
\* a successful waitForEmailMatching returns one email, and when the
\* provider's answer holds fewer previews than requested the method fails
\* with a Timeout error.
C14_NeverFewerThanRequested ==
  /\ (result.op = "grabEmailsMatching" /\ result.status = "returned") =>
       Len(result.value) >= result.args[2]
  /\ (result.op = "waitForEmailMatching" /\ result.status = "returned") =>
       result.value \in Emails
  /\ AnsweredFewer => (result.status = "thrown" /\ result.error = "Timeout")

(***************************************************************************)
(* Properties of haveNewMailbox and haveExistingMailbox.                   *)
(***************************************************************************)
\* C15: after a successful haveNewMailbox() or haveExistingMailbox(id) the
\* inbox the provider answered with is the last element of mailboxes, the
\* elements before it are the mailboxes recorded before the call, it is the
\* current mailbox, and currentEmail is as before the call.
C15_MailboxAppendedAndCurrent ==
  (result.op \in {"haveNewMailbox", "haveExistingMailbox"} /\ result.status = "returned") =>
    /\ result.value \in Inboxes
    /\ result.op = "haveExistingMailbox" => result.value.id = result.args[1]
    /\ ~Falsy(result.pre.mailboxes)
    /\ mailboxes = Arr(Append(result.pre.mailboxes.arr, result.value))
    /\ currentMailbox = result.value
    /\ currentEmail = result.pre.currentEmail

\* haveExistingMailbox has succeeded while a mailbox was already recorded and
\* an email was open.
C15_Witness ==
  /\ result.op = "haveExistingMailbox"
  /\ result.status = "returned"
  /\ Len(result.pre.mailboxes.arr) >= 1
  /\ result.pre.currentEmail \in Emails

\* C16: haveExistingMailbox called with an empty id or with none fails with
\* the missing-parameter error, issues no provider call (getInbox is not
\* invoked), and leaves mailboxes, currentMailbox and currentEmail unchanged.
C16_MissingIdRejected ==
  (result.op = "haveExistingMailbox" /\ (result.args = <<>> \/ result.args = <<"">>)) =>
    /\ result.status = "thrown"
    /\ result.error = "MissingParameter"
    /\ result.calls = <<>>
    /\ createPc = "idle"
    /\ Snapshot = result.pre

\* haveExistingMailbox('') has failed while a mailbox was recorded.
C16_Witness ==
  /\ result.op = "haveExistingMailbox"
  /\ result.args = <<"">>
  /\ result.status = "thrown"
  /\ ~Falsy(mailboxes)
  /\ Len(mailboxes.arr) >= 1

(***************************************************************************)
(* Properties of the constructor.                                          *)
(***************************************************************************)
HasApiKey(c) == "apiKey" \in DOMAIN c /\ c.apiKey # ""

\* C17: a constructor call without an apiKey (absent or empty) fails with the
\* not-configured error and creates no provider client, and while no helper
\* has been constructed no other operation has run; a constructor call with
\* an apiKey succeeds with the caller's timeout and debug values where the
\* caller gives them, and with 10000 and false where they do not.
C17_ApiKeyRequiredAndDefaults ==
  /\ ~Constructed =>
       /\ result.op \in {"require", "constructor"}
       /\ result.op = "constructor" => result.status = "thrown"
  /\ (result.op = "constructor" /\ ~HasApiKey(result.args[1])) =>
       /\ result.status = "thrown"
       /\ result.error = "NotConfigured"
       /\ result.calls = <<>>
       /\ ~Constructed
  /\ (result.op = "constructor" /\ HasApiKey(result.args[1])) =>
       LET c == result.args[1]
       IN  /\ result.status = "returned"
           /\ Len(result.calls) = 1
           /\ result.calls[1].fn = "new MailSlurpClient"
           /\ result.calls[1].apiKey = c.apiKey
           /\ config.apiKey = c.apiKey
           /\ config.timeout = IF "timeout" \in DOMAIN c THEN c.timeout ELSE 10000
           /\ config.debug = IF "debug" \in DOMAIN c THEN c.debug ELSE FALSE
  /\ Constructed =>
       /\ config.apiKey # ""
       /\ config.timeout \in {10000} \cup {c.timeout : c \in {u \in UserConfigs :
                                                              "timeout" \in DOMAIN u}}

\* The constructor has failed on an empty apiKey.
C17_Witness ==
  /\ result.op = "constructor"
  /\ result.status = "thrown"
  /\ "apiKey" \in DOMAIN result.args[1]
  /\ ~Constructed

(***************************************************************************)
(* Properties of the content assertions.                                   *)
(***************************************************************************)
\* Texts of up to two characters, and the occurrence of a text inside
\* another as a concatenation.
Chars == {"a", "b", "@", "="}
ShortTexts == UNION {[1..n -> Chars] : n \in 0..2}
Occurs(t, s) == \E before \in ShortTexts, after \in ShortTexts : s = before \o t \o after

\* C18: with an opened email, seeEmailAttachment(pattern) resolves the
\* attachment ids of the email in their order and stops at the first name
\* that matches: it passes exactly when a resolved name matches, no call is
\* issued after the first matching one, and when every attachment was
\* resolved and none matches it fails with an assertion failure that names
\* every attachment name found, in order.
C18_AttachmentFirstMatch ==
  (result.op = "seeEmailAttachment" /\ result.pre.currentEmail \in Emails) =>
    LET email == result.pre.currentEmail
        pattern == result.args[1]
        calls == result.calls
        k == Len(calls)
        Resolved(i) == "name" \in DOMAIN calls[i].answer
        Matching(i) == Resolved(i) /\ Occurs(pattern, calls[i].answer.name)
    IN  /\ k <= Len(email.attachments)
        /\ \A i \in 1..k :
              /\ calls[i].fn = "getAttachmentMetaData"
              /\ calls[i].attachmentId = email.attachments[i]
              /\ calls[i].emailId = email.id
        /\ \A i \in 1..(k - 1) : Resolved(i) /\ ~Matching(i)
        /\ result.status = "returned" <=> \E i \in 1..k : Matching(i)
        /\ (\A i \in 1..k : Resolved(i) /\ ~Matching(i)) <=>
             (result.status = "thrown" /\ result.error = "AssertionFailed")
        /\ (result.status = "thrown" /\ result.error = "AssertionFailed") =>
             /\ k = Len(email.attachments)
             /\ result.value.found = [i \in 1..k |-> calls[i].answer.name]
             /\ result.value.subject = email.subject
             /\ result.value.nameRegExp = pattern
        /\ result.status # "pending"
        /\ Snapshot = result.pre

\* seeEmailAttachment has failed after resolving two attachments, none of
\* which matches.
C18_Witness ==
  /\ result.op = "seeEmailAttachment"
  /\ result.status = "thrown"
  /\ result.error = "AssertionFailed"
  /\ Len(result.calls) = 2

\* C20: with an opened email, each subject or body assertion passes exactly
\* when its condition holds of the opened email and otherwise fails with an
\* assertion failure, and the two assertions of a pair have complementary
\* conditions: the subject equals the text or not, the subject contains the
\* text or not, the body contains the text or not.  None of them changes the
\* state or calls the provider.
C20_PairedAssertionsComplement ==
  LET email == result.pre.currentEmail
      text == result.args[1]
      PassesIff(cond) == /\ cond => result.status = "returned"
                         /\ ~cond => (result.status = "thrown" /\
                                      result.error = "AssertionFailed")
                         /\ result.calls = <<>>
                         /\ Snapshot = result.pre
  IN  (result.pre.currentEmail \in Emails) =>
        /\ result.op = "seeEmailSubjectEquals" => PassesIff(email.subject = text)
        /\ result.op = "dontSeeEmailSubjectEquals" => PassesIff(~(email.subject = text))
        /\ result.op = "seeInEmailSubject" => PassesIff(Occurs(text, email.subject))
        /\ result.op = "dontSeeInEmailSubject" => PassesIff(~Occurs(text, email.subject))
        /\ result.op = "seeInEmailBody" => PassesIff(Occurs(text, email.body))
        /\ result.op = "dontSeeInEmailBody" => PassesIff(~Occurs(text, email.body))

\* dontSeeInEmailSubject has failed on a text that is part of the subject
\* without being the whole subject.
C20_Witness ==
  /\ result.op = "dontSeeInEmailSubject"
  /\ result.status = "thrown"
  /\ result.error = "AssertionFailed"
  /\ result.pre.currentEmail \in Emails
  /\ result.args[1] # <<>>
  /\ result.pre.currentEmail.subject # result.args[1]

(***************************************************************************)
(* Properties of the stepwise waitForNthEmail.                             *)
(***************************************************************************)
\* waitForNthEmail has ended by the provider's answer while the mailbox held
\* fewer messages than asked for.
NthEndedShort ==
  /\ result.op = "waitForNthEmail"
  /\ result.status # "pending"
  /\ Len(result.calls) = 1
  /\ provider.delivered < result.args[1]

\* C19: waitForNthEmail(n, sec) does not wait without bound, and when fewer
\* than n messages have been delivered to the mailbox it ends with a Timeout
\* error, returns no message, and leaves currentEmail (and the rest of the
\* fixture state) as it was before the call.
C19_NthEmailTimesOut ==
  /\ NthPending ~> ~NthPending
  /\ \A n \in Numbers :
       []((NthPending /\ result.args[1] = n /\ [](provider.delivered < n))
            => <>(NthEndedShort /\ result.error = "Timeout"))
  /\ [](NthEndedShort =>
          /\ result.status = "thrown"
          /\ result.error = "Timeout"
          /\ result.value = Undefined
          /\ Snapshot = result.pre)

\* waitForNthEmail(2) has ended on a mailbox with one message, while an email
\* was open.
C19_Witness ==
  /\ NthEndedShort
  /\ result.args[1] = 2
  /\ provider.delivered = 1
  /\ currentEmail \in Emails

(***************************************************************************)
(* Properties of the stepwise grab.                                        *)
(***************************************************************************)
\* A grab whose preview call the provider has answered with previews.
GrabAnswered ==
  /\ result.op \in GrabMethods
  /\ Len(result.calls) > 0
  /\ "answer" \in DOMAIN result.calls[1]
  /\ result.calls[1].answer \in PreviewLists

\* C21: grabEmailsMatching and grabAllEmailsFromMailbox issue one getEmail
\* call per preview, in preview order, and whatever the order in which the
\* calls settle, a successful grab returns as many emails as there are
\* previews, the i-th being the email of the i-th preview; a grab of which a
\* getEmail call has failed does not return a list, and once it has ended it
\* has failed.
C21_GrabKeepsPreviewOrder ==
  GrabAnswered =>
    LET previews == result.calls[1].answer.arr
        n == Len(previews)
    IN  /\ Len(result.calls) = n + 1
        /\ \A i \in 1..n : result.calls[i + 1] = [fn |-> "getEmail", id |-> previews[i].id]
        /\ result.status = "returned" =>
             /\ Len(result.value) = n
             /\ \A i \in 1..n : /\ result.value[i] \in Emails
                                 /\ result.value[i].id = previews[i].id
             /\ Len(grab.order) = n
        /\ (\E i \in 1..Len(grab.settled) : grab.settled[i] \in ProviderErrors) =>
             /\ result.status # "returned"
             /\ result.value = Undefined
             /\ result.status # "pending" => (result.status = "thrown" /\
                                              result.error = "ProviderError")
        /\ Snapshot = result.pre

\* A grab has returned two emails whose getEmail calls settled in the
\* reverse of the preview order.
C21_Witness ==
  /\ GrabAnswered
  /\ result.status = "returned"
  /\ Len(result.value) = 2
  /\ grab.order = <<2, 1>>

(***************************************************************************)
(* Properties of creation interleaved with teardown.                       *)
(***************************************************************************)
\* _after() ends in this step.
AfterEnds == afterPc = "awaiting" /\ afterPc' = "idle"

\* C22: no mailbox is lost when a creation completes while _after() awaits
\* its delete calls: every mailbox recorded in mailboxes when _after() ends
\* has had its deleteInbox call issued by this _after(), or is still in
\* mailboxes afterwards.
C22_NoMailboxLost ==
  [][AfterEnds =>
       \A i \in 1..Len(mailboxes.arr) :
         \/ \E j \in 1..Len(deleteCalls) : deleteCalls[j].id = mailboxes.arr[i].id
         \/ \E k \in 1..Len(mailboxes'.arr) : mailboxes'.arr[k] = mailboxes.arr[i]]_vars
====
